---- MODULE Spec2Model ----
(***************************************************************************)
(* A model of the claude-hyper-agents MCP server: the project / task      *)
(* tools of src/mcp/src/index.ts and the helpers of                       *)
(* src/mcp/src/db/supabase.ts, run against a store that holds the         *)
(* projects, tasks and activity_log tables.                               *)
(*                                                                         *)
(* Conventions.  A JavaScript string is a sequence of one-character       *)
(* strings.  A value that may be null / undefined is a sequence of length *)
(* at most one: NULL is the empty sequence and Some(v) holds v.  The      *)
(* enumerations (status, priority, activity action, tool name) are TLA+   *)
(* strings.  A row's id is its position in its table.  result is what the *)
(* last tool call left for its caller, and write_faults counts the store  *)
(* writes that have failed.  env is the process environment and           *)
(* supabaseClient the module-level client handle of db/supabase.ts.       *)
(* in_flight holds the handler calls that are suspended at an await.       *)
(***************************************************************************)
EXTENDS Integers, Sequences, FiniteSets, TLC

VARIABLES projects, tasks, activity_log, clock, result, write_faults,
          env, supabaseClient, in_flight

vars == <<projects, tasks, activity_log, clock, result, write_faults,
          env, supabaseClient, in_flight>>

----------------------------------------------------------------------------
(* Bounds of the model.                                                    *)

MaxProjects == 1
MaxTasks == 2
MaxLog == 4
MaxClock == 2

----------------------------------------------------------------------------
(* Optional values and JavaScript's tests on them.                         *)

NULL == <<>>
Some(v) == <<v>>

\* x ?? d
Coalesce(x, d) == IF x = NULL THEN d ELSE x[1]

\* if (s) for an optional string: neither undefined nor ""
Truthy(s) == s # NULL /\ s[1] # <<>>

----------------------------------------------------------------------------
(* Strings.                                                                *)

UpperChars == <<"A","B","C","D","E","F","G","H","I","J","K","L","M",
                "N","O","P","Q","R","S","T","U","V","W","X","Y","Z">>
LowerChars == <<"a","b","c","d","e","f","g","h","i","j","k","l","m",
                "n","o","p","q","r","s","t","u","v","w","x","y","z">>
DigitChars == {"0","1","2","3","4","5","6","7","8","9"}
SpaceChars == {" ", "\t", "\n", "\r"}

Range(s) == {s[i] : i \in DOMAIN s}

LowerChar(c) ==
  IF \E i \in DOMAIN UpperChars : UpperChars[i] = c
  THEN LowerChars[CHOOSE i \in DOMAIN UpperChars : UpperChars[i] = c]
  ELSE c

\* String.prototype.toLowerCase
toLowerCase(s) == [i \in DOMAIN s |-> LowerChar(s[i])]

\* x?.toLowerCase() ?? null
LowerOpt(x) == IF x = NULL THEN NULL ELSE Some(toLowerCase(x[1]))

\* .replace(/[^a-z0-9\s-]/g, '')
StripChars(s) ==
  SelectSeq(s, LAMBDA c : c \in Range(LowerChars) \cup DigitChars \cup SpaceChars \cup {"-"})

\* .replace(/<class>+/g, '-') : every maximal run of characters of cls becomes one '-'
RECURSIVE CollapseRuns(_, _)
CollapseRuns(s, cls) ==
  IF s = <<>> THEN <<>>
  ELSE IF Head(s) \in cls
       THEN IF Len(s) > 1 /\ s[2] \in cls
            THEN CollapseRuns(Tail(s), cls)
            ELSE <<"-">> \o CollapseRuns(Tail(s), cls)
       ELSE <<Head(s)>> \o CollapseRuns(Tail(s), cls)

\* String.prototype.trim : leading and trailing whitespace removed
RECURSIVE TrimLeft(_)
TrimLeft(s) == IF s # <<>> /\ Head(s) \in SpaceChars THEN TrimLeft(Tail(s)) ELSE s

RECURSIVE TrimRight(_)
TrimRight(s) ==
  IF s # <<>> /\ s[Len(s)] \in SpaceChars THEN TrimRight(SubSeq(s, 1, Len(s) - 1)) ELSE s

trim(s) == TrimRight(TrimLeft(s))

\* generateSlug with the two collapsing replacements in the other order
generateSlug_HyphensFirst(name) ==
  trim(CollapseRuns(CollapseRuns(StripChars(toLowerCase(name)), {"-"}), SpaceChars))

generateSlug(name) ==
  trim(CollapseRuns(CollapseRuns(StripChars(toLowerCase(name)), SpaceChars), {"-"}))

system == <<"s","y","s","t","e","m">>

----------------------------------------------------------------------------
(* The enumerations.                                                       *)

TaskStatuses == {"backlog", "todo", "in_progress", "review", "blocked", "done"}
ProjectStatuses == {"planning", "active", "paused", "completed", "archived"}
PriorityLevels == {"critical", "high", "medium", "low"}

----------------------------------------------------------------------------
(* The store: update of one row by id, and the activity_log insert.        *)

\* updateData.<field> = val
Put(upd, fld, val) == [f \in DOMAIN upd \cup {fld} |-> IF f = fld THEN val ELSE upd[f]]

\* the row after .update(updateData): the patched columns replaced, the others kept
Patched(row, upd) == [f \in DOMAIN row |-> IF f \in DOMAIN upd THEN upd[f] ELSE row[f]]

\* .update(updateData).eq('id', id) on a table
UpdateRow(table, id, upd) == [table EXCEPT ![id] = Patched(table[id], upd)]

\* ActivityRow with the project scope forgotten
ActivityRow_NoProject(agent, action, options) ==
  [agent        |-> agent,
   action       |-> action,
   project_id   |-> NULL,
   team         |-> options.team,
   related_id   |-> options.relatedId,
   related_type |-> options.relatedType]

\* the row logActivity inserts; options holds projectId, team, relatedId, relatedType
ActivityRow(agent, action, options) ==
  [agent        |-> agent,
   action       |-> action,
   project_id   |-> options.projectId,
   team         |-> options.team,
   related_id   |-> options.relatedId,
   related_type |-> options.relatedType]

\* logActivity keeping one row per entity: a later row replaces the newest one
logActivity_Overwrite(log, agent, action, options, logErr) ==
  IF logErr THEN log
  ELSE IF log = <<>> THEN <<ActivityRow(agent, action, options)>>
  ELSE [log EXCEPT ![Len(log)] = ActivityRow(agent, action, options)]

\* logActivity with the failed insert tried again until it succeeds
logActivity_Retry(log, agent, action, options, logErr) ==
  Append(log, [agent        |-> agent,
               action       |-> action,
               project_id   |-> options.projectId,
               team         |-> options.team,
               related_id   |-> options.relatedId,
               related_type |-> options.relatedType])

\* logActivity: one insert into activity_log; a store error is thrown to the caller
logActivity(log, agent, action, options, logErr) ==
  IF logErr THEN log ELSE Append(log, ActivityRow(agent, action, options))

\* what a tool call leaves for its caller
\* (id: the row a write returns; rows: the ids of the rows a listing returns, in
\* its order, and query: the status and include_done arguments it was called
\* with; dash: the dashboard ha_status_project returns)
NoDash == [project |-> 0, total |-> 0, by_status |-> [k \in {} |-> 0],
           by_team |-> [k \in {} |-> 0], recent_activity |-> <<>>]
NoQuery == [status |-> NULL, include_done |-> NULL]
Ok(op, id) ==
  [op |-> op, ok |-> TRUE, error |-> "", id |-> id,
   rows |-> <<>>, query |-> NoQuery, dash |-> NoDash]
Thrown(op, msg) ==
  [op |-> op, ok |-> FALSE, error |-> msg, id |-> 0,
   rows |-> <<>>, query |-> NoQuery, dash |-> NoDash]
\* error.message of the store: .single() found no row (or several), or the
\* store itself failed
NoRows == "no rows returned"
StoreFault == "store fault"

\* throw new Error(`<prefix>: ${error.message}`) of a single-row lookup or update
Failed(op, prefix, dbErr) ==
  Thrown(op, prefix \o ": " \o (IF dbErr THEN StoreFault ELSE NoRows))
Listed(op, rows, status, include_done) ==
  [op |-> op, ok |-> TRUE, error |-> "", id |-> 0,
   rows |-> rows, query |-> [status |-> status, include_done |-> include_done],
   dash |-> NoDash]
Dashboard(op, dash) ==
  [op |-> op, ok |-> TRUE, error |-> "", id |-> 0,
   rows |-> <<>>, query |-> NoQuery, dash |-> dash]

----------------------------------------------------------------------------
(* The state after construction: an empty store, no client yet, and an    *)
(* environment that holds the store's URL and service key.                 *)

NoResult == Ok("", 0)

GoodEnv == [SUPABASE_URL |-> "https://db.example", SUPABASE_SERVICE_KEY |-> "key"]

EmptyStore ==
  /\ projects = <<>>
  /\ tasks = <<>>
  /\ activity_log = <<>>
  /\ clock = 1
  /\ result = NoResult
  /\ write_faults = 0
  /\ supabaseClient = NULL
  /\ in_flight = <<>>

Init ==
  /\ EmptyStore
  /\ env = GoodEnv

\* new Date().toISOString()
Now == Some(clock)

\* the wall clock advances between calls
Tick ==
  /\ clock < MaxClock
  /\ clock' = clock + 1
  /\ UNCHANGED <<projects, tasks, activity_log, result, write_faults, env, supabaseClient,
                 in_flight>>

NoOptions == [projectId |-> NULL, team |-> NULL, relatedId |-> NULL, relatedType |-> NULL]

----------------------------------------------------------------------------
(* The client handle.  Every tool handler starts with getSupabase(), which *)
(* builds the client on first use from the environment getEnv validates.   *)

\* z.string().url() accepts the value
ValidUrls == {"https://db.example"}

\* envSchema.safeParse(...).success: a URL, and a service key of length >= 1;
\* an unset variable is held as "unset"
getEnv(e) ==
  /\ e.SUPABASE_URL \in ValidUrls
  /\ e.SUPABASE_SERVICE_KEY \notin {"unset", ""}

\* throw new Error(`Missing environment variables: ...`)
MissingEnv == "Missing environment variables"

\* a handler registered with server.tool: getSupabase() throws out of the
\* handler when there is no client and getEnv fails, and the server answers that
\* call with the error; otherwise the client is built once, kept, and the
\* handler's body runs
NoClient == supabaseClient = NULL /\ ~getEnv(env)

tool(op, body) ==
  /\ UNCHANGED env
  /\ IF NoClient
     THEN /\ result' = Thrown(op, MissingEnv)
          /\ UNCHANGED <<projects, tasks, activity_log, clock, supabaseClient>>
     ELSE /\ supabaseClient' = IF supabaseClient = NULL THEN Some(env) ELSE supabaseClient
          /\ body

----------------------------------------------------------------------------
(* Project tools.                                                          *)

NewProject(name) == [name |-> name, slug |-> generateSlug(name), status |-> "planning"]

ha_project_create(name, dbErr, logErr) ==
  /\ UNCHANGED <<tasks, clock>>
  /\ IF dbErr
     THEN /\ result' = Thrown("ha_project_create", "Failed to create project")
          /\ UNCHANGED <<projects, activity_log>>
     ELSE LET id == Len(projects) + 1 IN
          /\ projects' = Append(projects, NewProject(name))
          /\ activity_log' = logActivity(activity_log, system, "project_created",
                                         [NoOptions EXCEPT !.projectId = Some(id)], logErr)
          /\ result' = IF logErr THEN Thrown("ha_project_create", "activity_log")
                                 ELSE Ok("ha_project_create", id)

\* ProjectUpdateData with the slug left as it was when the name changes
ProjectUpdateData_KeepSlug(name, status) ==
  LET u0 == <<>>
      u1 == IF Truthy(name) THEN Put(u0, "name", name[1]) ELSE u0
      u2 == IF status # NULL THEN Put(u1, "status", status[1]) ELSE u1
  IN u2

\* updateData of ha_project_update (description and settings are passed through)
ProjectUpdateData(name, status) ==
  LET u0 == <<>>
      u1 == IF Truthy(name)
            THEN Put(Put(u0, "name", name[1]), "slug", generateSlug(name[1]))
            ELSE u0
      u2 == IF status # NULL THEN Put(u1, "status", status[1]) ELSE u1
  IN u2

ha_project_update(project_id, name, status, dbErr, logErr) ==
  /\ UNCHANGED <<tasks, clock>>
  /\ IF dbErr \/ project_id \notin DOMAIN projects
     THEN /\ result' = Failed("ha_project_update", "Failed to update project", dbErr)
          /\ UNCHANGED <<projects, activity_log>>
     ELSE /\ projects' = UpdateRow(projects, project_id, ProjectUpdateData(name, status))
          /\ activity_log' = logActivity(activity_log, system, "project_updated",
                                         [NoOptions EXCEPT !.projectId = Some(project_id)], logErr)
          /\ result' = IF logErr THEN Thrown("ha_project_update", "activity_log")
                                 ELSE Ok("ha_project_update", project_id)

\* the id the store gives the row at position i of projects: a UUID
Rep(c, n) == [k \in 1 .. n |-> c]
Digit(i) == <<"1","2","3","4","5","6","7","8","9">>[i]
ProjectUuid(i) ==
  Rep("0", 8) \o <<"-">> \o Rep("0", 4) \o <<"-", "4">> \o Rep("0", 3)
    \o <<"-", "a">> \o Rep("0", 3) \o <<"-">> \o Rep("0", 11) \o <<Digit(i)>>

\* isUuid with the letters a-f left out of the character class
isUuid_DigitsOnly(identifier) ==
  /\ Len(identifier) = 36
  /\ \A k \in 1 .. 36 :
       IF k \in {9, 14, 19, 24} THEN identifier[k] = "-"
       ELSE identifier[k] \in DigitChars

\* /^[0-9a-f]{8}-[0-9a-f]{4}-[0-9a-f]{4}-[0-9a-f]{4}-[0-9a-f]{12}$/i.test(identifier)
isUuid(identifier) ==
  /\ Len(identifier) = 36
  /\ \A k \in 1 .. 36 :
       IF k \in {9, 14, 19, 24} THEN identifier[k] = "-"
       ELSE LowerChar(identifier[k]) \in DigitChars \cup {"a", "b", "c", "d", "e", "f"}

\* .single(): the one row that matches, or an error when none or several do
ha_project_get(identifier, dbErr) ==
  LET found == IF isUuid(identifier)
               THEN {p \in DOMAIN projects : ProjectUuid(p) = identifier}
               ELSE {p \in DOMAIN projects : projects[p].slug = identifier}
  IN /\ UNCHANGED <<projects, tasks, activity_log, clock>>
     /\ result' = IF dbErr \/ Cardinality(found) # 1
                  THEN Failed("ha_project_get", "Project not found", dbErr)
                  ELSE Ok("ha_project_get", CHOOSE p \in found : TRUE)

----------------------------------------------------------------------------
(* Task tools.                                                             *)

NewTask(project_id, title, team, agent, priority) ==
  [project_id     |-> project_id,
   title          |-> title,
   status         |-> "backlog",
   priority       |-> Coalesce(priority, "medium"),
   assigned_team  |-> LowerOpt(team),
   assigned_agent |-> LowerOpt(agent),
   blocker_reason |-> NULL,
   created_by     |-> Some(Coalesce(agent, system)),
   updated_by     |-> NULL,
   started_at     |-> NULL,
   completed_at   |-> NULL]

ha_task_create(project_id, title, team, agent, priority, dbErr, logErr) ==
  /\ UNCHANGED <<projects, clock>>
  /\ IF dbErr
     THEN /\ result' = Thrown("ha_task_create", "Failed to create task")
          /\ UNCHANGED <<tasks, activity_log>>
     ELSE LET id == Len(tasks) + 1 IN
          /\ tasks' = Append(tasks, NewTask(project_id, title, team, agent, priority))
          /\ activity_log' = logActivity(activity_log, Coalesce(agent, system), "task_created",
                                         [projectId   |-> Some(project_id),
                                          team        |-> team,
                                          relatedId   |-> Some(id),
                                          relatedType |-> Some("task")], logErr)
          /\ result' = IF logErr THEN Thrown("ha_task_create", "activity_log")
                                 ELSE Ok("ha_task_create", id)

\* updateData of ha_task_update (description and the hours are passed through)
TaskUpdateData(updated_by, title, status, priority, team, agent) ==
  LET u0 == [updated_by |-> Some(Coalesce(updated_by, system))]
      u1 == IF Truthy(title) THEN Put(u0, "title", title[1]) ELSE u0
      u2 == IF status # NULL THEN Put(u1, "status", status[1]) ELSE u1
      u3 == IF status = Some("in_progress") THEN Put(u2, "started_at", Now) ELSE u2
      u4 == IF status = Some("done") THEN Put(u3, "completed_at", Now) ELSE u3
      u5 == IF priority # NULL THEN Put(u4, "priority", priority[1]) ELSE u4
      u6 == IF Truthy(team) THEN Put(u5, "assigned_team", Some(toLowerCase(team[1]))) ELSE u5
      u7 == IF Truthy(agent) THEN Put(u6, "assigned_agent", Some(toLowerCase(agent[1]))) ELSE u6
  IN u7

ha_task_update(task_id, updated_by, title, status, priority, team, agent, dbErr) ==
  /\ UNCHANGED <<projects, activity_log, clock>>
  /\ IF dbErr \/ task_id \notin DOMAIN tasks
     THEN /\ result' = Failed("ha_task_update", "Failed to update task", dbErr)
          /\ UNCHANGED tasks
     ELSE /\ tasks' = UpdateRow(tasks, task_id,
                                TaskUpdateData(updated_by, title, status, priority, team, agent))
          /\ result' = Ok("ha_task_update", task_id)

\* TaskAssignData with the status left as it is
TaskAssignData_KeepStatus(team, agent) ==
  [assigned_team  |-> Some(toLowerCase(team)),
   assigned_agent |-> LowerOpt(agent),
   updated_by     |-> Some(Coalesce(agent, system))]

\* TaskAssignData with the start of work forgotten on reassignment
TaskAssignData_Restart(team, agent) ==
  [assigned_team  |-> Some(toLowerCase(team)),
   assigned_agent |-> LowerOpt(agent),
   status         |-> "todo",
   updated_by     |-> Some(Coalesce(agent, system)),
   started_at     |-> NULL]

\* TaskAssignData that writes assigned_agent only when an agent is given
TaskAssignData_KeepAgent(team, agent) ==
  LET u0 == [assigned_team |-> Some(toLowerCase(team)),
             status        |-> "todo",
             updated_by    |-> Some(Coalesce(agent, system))]
  IN IF agent = NULL THEN u0 ELSE Put(u0, "assigned_agent", LowerOpt(agent))

\* the row ha_task_assign writes
TaskAssignData(team, agent) ==
  [assigned_team  |-> Some(toLowerCase(team)),
   assigned_agent |-> LowerOpt(agent),
   status         |-> "todo",
   updated_by     |-> Some(Coalesce(agent, system))]

ha_task_assign(task_id, team, agent, dbErr, logErr) ==
  /\ UNCHANGED <<projects, clock>>
  /\ IF dbErr \/ task_id \notin DOMAIN tasks
     THEN /\ result' = Failed("ha_task_assign", "Failed to assign task", dbErr)
          /\ UNCHANGED <<tasks, activity_log>>
     ELSE /\ tasks' = UpdateRow(tasks, task_id, TaskAssignData(team, agent))
          /\ activity_log' = logActivity(activity_log, Coalesce(agent, system), "task_assigned",
                                         [projectId   |-> Some(tasks'[task_id].project_id),
                                          team        |-> Some(team),
                                          relatedId   |-> Some(task_id),
                                          relatedType |-> Some("task")], logErr)
          /\ result' = IF logErr THEN Thrown("ha_task_assign", "activity_log")
                                 ELSE Ok("ha_task_assign", task_id)

\* updateData of ha_task_status
TaskStatusData(status, agent, notes) ==
  LET u0 == [status |-> status, updated_by |-> Some(Coalesce(agent, system))]
      u1 == IF status = "in_progress" THEN Put(u0, "started_at", Now) ELSE u0
      u2 == IF status = "done" THEN Put(u1, "completed_at", Now) ELSE u1
      u3 == IF status = "blocked" /\ Truthy(notes) THEN Put(u2, "blocker_reason", notes) ELSE u2
      u4 == IF status # "blocked" THEN Put(u3, "blocker_reason", NULL) ELSE u3
  IN u4

\* ha_task_status that records the attempt when no row matched
ha_task_status_LogsMiss(task_id, status, agent, notes, dbErr, logErr) ==
  /\ UNCHANGED <<projects, clock>>
  /\ IF dbErr \/ task_id \notin DOMAIN tasks
     THEN /\ result' = Failed("ha_task_status", "Failed to update status", dbErr)
          /\ UNCHANGED tasks
          /\ activity_log' = logActivity(activity_log, Coalesce(agent, system), "task_" \o status,
                                         NoOptions, logErr)
     ELSE /\ tasks' = UpdateRow(tasks, task_id, TaskStatusData(status, agent, notes))
          /\ activity_log' = logActivity(activity_log, Coalesce(agent, system), "task_" \o status,
                                         [projectId   |-> Some(tasks'[task_id].project_id),
                                          team        |-> tasks'[task_id].assigned_team,
                                          relatedId   |-> Some(task_id),
                                          relatedType |-> Some("task")], logErr)
          /\ result' = IF logErr THEN Thrown("ha_task_status", "activity_log")
                                 ELSE Ok("ha_task_status", task_id)

ha_task_status(task_id, status, agent, notes, dbErr, logErr) ==
  /\ UNCHANGED <<projects, clock>>
  /\ IF dbErr \/ task_id \notin DOMAIN tasks
     THEN /\ result' = Failed("ha_task_status", "Failed to update status", dbErr)
          /\ UNCHANGED <<tasks, activity_log>>
     ELSE /\ tasks' = UpdateRow(tasks, task_id, TaskStatusData(status, agent, notes))
          /\ activity_log' = logActivity(activity_log, Coalesce(agent, system), "task_" \o status,
                                         [projectId   |-> Some(tasks'[task_id].project_id),
                                          team        |-> tasks'[task_id].assigned_team,
                                          relatedId   |-> Some(task_id),
                                          relatedType |-> Some("task")], logErr)
          /\ result' = IF logErr THEN Thrown("ha_task_status", "activity_log")
                                 ELSE Ok("ha_task_status", task_id)

\* ha_task_status as the two store requests it awaits one after the other, with
\* other calls free to run in between.  First the update: the store writes the
\* row and returns it as data; the call waits in in_flight with what it holds.
ha_task_status_update(task_id, status, agent, notes) ==
  /\ task_id \in DOMAIN tasks
  /\ tasks' = UpdateRow(tasks, task_id, TaskStatusData(status, agent, notes))
  /\ in_flight' = Append(in_flight, [task_id |-> task_id, status |-> status,
                                     agent |-> agent, data |-> tasks'[task_id]])
  /\ UNCHANGED <<projects, activity_log, clock, result>>

\* the sequence without its element at position i
Without(calls, i) == SubSeq(calls, 1, i - 1) \o SubSeq(calls, i + 1, Len(calls))

\* Then logActivity, from the data the update returned, and the return
ha_task_status_log(i) ==
  LET call == in_flight[i] IN
  /\ activity_log' = logActivity(activity_log, Coalesce(call.agent, system),
                                 "task_" \o call.status,
                                 [projectId   |-> Some(call.data.project_id),
                                  team        |-> call.data.assigned_team,
                                  relatedId   |-> Some(call.task_id),
                                  relatedType |-> Some("task")], FALSE)
  /\ in_flight' = Without(in_flight, i)
  /\ result' = Ok("ha_task_status", call.task_id)
  /\ UNCHANGED <<projects, tasks, clock, env, supabaseClient>>

----------------------------------------------------------------------------
(* Activity tools.                                                         *)

\* ha_activity_log: logActivity with the caller's agent, action, project and team
ha_activity_log(agent, action, project_id, team, logErr) ==
  /\ UNCHANGED <<projects, tasks, clock>>
  /\ activity_log' = logActivity(activity_log, agent, action,
                                 [NoOptions EXCEPT !.projectId = project_id, !.team = team],
                                 logErr)
  /\ result' = IF logErr THEN Thrown("ha_activity_log", "activity_log")
                         ELSE Ok("ha_activity_log", 0)

----------------------------------------------------------------------------
(* Listings and the dashboard.  A query's rows are held newest first       *)
(* (created_at descending: the reverse of the order of insertion).         *)

DefaultTaskLimit == 50
RecentActivityLimit == 10

\* the ids of a table, newest first
NewestFirst(table) == [i \in 1 .. Len(table) |-> Len(table) + 1 - i]

\* .limit(n)
Limit(rows, n) == SubSeq(rows, 1, IF n < Len(rows) THEN n ELSE Len(rows))

\* the filters of ha_task_list: each is applied when its argument is given (truthy)
TaskListMatch(row, project_id, status, team, agent, priority) ==
  /\ project_id # NULL => row.project_id = project_id[1]
  /\ status # NULL => row.status = status[1]
  /\ Truthy(team) => row.assigned_team = Some(toLowerCase(team[1]))
  /\ Truthy(agent) => row.assigned_agent = Some(toLowerCase(agent[1]))
  /\ priority # NULL => row.priority = priority[1]

ha_task_list(project_id, status, team, agent, priority, limit, dbErr) ==
  /\ UNCHANGED <<projects, tasks, activity_log, clock>>
  /\ result' =
       IF dbErr THEN Thrown("ha_task_list", "Failed to list tasks")
       ELSE Listed("ha_task_list",
                   Limit(SelectSeq(NewestFirst(tasks),
                                   LAMBDA t : TaskListMatch(tasks[t], project_id, status,
                                                            team, agent, priority)),
                         Coalesce(limit, DefaultTaskLimit)),
                   status, NULL)

\* the status list with done left in
OpenStatuses_WithDone == {"backlog", "todo", "in_progress", "review", "blocked", "done"}

\* .in('status', [...]) of ha_task_my_tasks and ha_task_team_tasks
OpenStatuses == {"backlog", "todo", "in_progress", "review", "blocked"}

\* the position of a priority in .order('priority'): that of its declaration
PriorityRank(p) ==
  CASE p = "critical" -> 1 [] p = "high" -> 2 [] p = "medium" -> 3 [] p = "low" -> 4

\* .order('priority').order('created_at', { ascending: false }) of rows held newest first
RECURSIVE ByPriority(_, _)
ByPriority(rows, rank) ==
  IF rank > 4 THEN <<>>
  ELSE SelectSeq(rows, LAMBDA t : PriorityRank(tasks[t].priority) = rank)
       \o ByPriority(rows, rank + 1)

\* if (!include_done) query.in('status', ...)
StatusShown(row, include_done) ==
  include_done \in {NULL, Some(FALSE)} => row.status \in OpenStatuses

ha_task_my_tasks(agent, include_done, dbErr) ==
  /\ UNCHANGED <<projects, tasks, activity_log, clock>>
  /\ result' =
       IF dbErr THEN Thrown("ha_task_my_tasks", "Failed to get tasks")
       ELSE Listed("ha_task_my_tasks",
                   ByPriority(SelectSeq(NewestFirst(tasks),
                                        LAMBDA t : /\ tasks[t].assigned_agent = Some(toLowerCase(agent))
                                                   /\ StatusShown(tasks[t], include_done)),
                              1),
                   NULL, include_done)

ha_task_team_tasks(team, include_done, dbErr) ==
  /\ UNCHANGED <<projects, tasks, activity_log, clock>>
  /\ result' =
       IF dbErr THEN Thrown("ha_task_team_tasks", "Failed to get team tasks")
       ELSE Listed("ha_task_team_tasks",
                   ByPriority(SelectSeq(NewestFirst(tasks),
                                        LAMBDA t : /\ tasks[t].assigned_team = Some(toLowerCase(team))
                                                   /\ StatusShown(tasks[t], include_done)),
                              1),
                   NULL, include_done)

\* rows.reduce((acc, k) => { acc[k] = (acc[k] ?? 0) + 1 }, {}) over a sequence of keys
RECURSIVE Tally(_, _)
Tally(keys, acc) ==
  IF keys = <<>> THEN acc
  ELSE Tally(Tail(keys),
             Put(acc, Head(keys),
                 (IF Head(keys) \in DOMAIN acc THEN acc[Head(keys)] ELSE 0) + 1))

\* statusCounts
StatusCounts(rows) == Tally([i \in DOMAIN rows |-> tasks[rows[i]].status], [k \in {} |-> 0])

\* teamCounts: only the rows with a truthy assigned_team are counted
TeamCounts(rows) ==
  LET named == SelectSeq(rows, LAMBDA t : Truthy(tasks[t].assigned_team))
  IN Tally([i \in DOMAIN named |-> tasks[named[i]].assigned_team[1]], [k \in {} |-> 0])

\* tasksRes.data ?? [] : the tasks of the project, or nothing when the fetch failed
DashboardTasks(project_id, tasksErr) ==
  IF tasksErr THEN <<>>
  ELSE SelectSeq([i \in DOMAIN tasks |-> i], LAMBDA t : tasks[t].project_id = project_id)

\* activityRes.data ?? [] : the 10 newest rows of the project, or nothing when the fetch failed
DashboardActivity(project_id, actErr) ==
  IF actErr THEN <<>>
  ELSE Limit(SelectSeq(NewestFirst(activity_log),
                       LAMBDA i : activity_log[i].project_id = Some(project_id)),
             RecentActivityLimit)

ha_status_project(project_id, projErr, tasksErr, actErr) ==
  /\ UNCHANGED <<projects, tasks, activity_log, clock>>
  /\ result' =
       IF projErr \/ project_id \notin DOMAIN projects
       THEN Failed("ha_status_project", "Project not found", projErr)
       ELSE LET rows == DashboardTasks(project_id, tasksErr) IN
            Dashboard("ha_status_project",
                      [project         |-> project_id,
                       total           |-> Len(rows),
                       by_status       |-> StatusCounts(rows),
                       by_team         |-> TeamCounts(rows),
                       recent_activity |-> DashboardActivity(project_id, actErr)])

DefaultActivityLimit == 50

\* the filters of ha_activity_get: each is applied when its argument is truthy,
\* with the argument as the caller wrote it
ActivityMatch(row, project_id, agent, team, action) ==
  /\ project_id # NULL => row.project_id = project_id
  /\ Truthy(agent) => row.agent = agent[1]
  /\ Truthy(team) => row.team = team
  /\ action # NULL => row.action = action[1]

ha_activity_get(project_id, agent, team, action, limit, dbErr) ==
  /\ UNCHANGED <<projects, tasks, activity_log, clock>>
  /\ result' =
       IF dbErr THEN Thrown("ha_activity_get", "Failed to get activity")
       ELSE Listed("ha_activity_get",
                   Limit(SelectSeq(NewestFirst(activity_log),
                                   LAMBDA i : ActivityMatch(activity_log[i], project_id,
                                                            agent, team, action)),
                         Coalesce(limit, DefaultActivityLimit)),
                   NULL, NULL)

----------------------------------------------------------------------------
(* The calls of the specifications: the arguments are drawn from small     *)
(* sets; an id one past the table is an id that matches no row.            *)

Acme == <<"A","c","m","e">>
Dev == <<"D","e","v">>
Ava == <<"A","v","a">>
Design == <<"D","e","s","i","g","n">>
Waiting == <<"w","a","i","t">>

ProjectIds == 1 .. Len(projects) + 1
TaskIds == 1 .. Len(tasks) + 1

\* the bounded tables have room for one more row
ProjectRoom == Len(projects) < MaxProjects
TaskRoom == Len(tasks) < MaxTasks
LogRoom == Len(activity_log) < MaxLog

CreateProject ==
  /\ ProjectRoom /\ LogRoom
  /\ tool("ha_project_create", ha_project_create(Acme, FALSE, FALSE))
  /\ UNCHANGED <<write_faults, in_flight>>

CreateTask ==
  /\ TaskRoom /\ LogRoom
  /\ \E p \in DOMAIN projects :
       tool("ha_task_create", ha_task_create(p, Design, NULL, NULL, NULL, FALSE, FALSE))
  /\ UNCHANGED <<write_faults, in_flight>>

UpdateTask ==
  /\ \E id \in TaskIds, status \in {NULL} \cup {Some(s) : s \in TaskStatuses} :
       tool("ha_task_update", ha_task_update(id, NULL, NULL, status, NULL, NULL, NULL, FALSE))
  /\ UNCHANGED <<write_faults, in_flight>>

AssignTask ==
  /\ LogRoom
  /\ \E id \in TaskIds :
       tool("ha_task_assign", ha_task_assign(id, Dev, NULL, FALSE, FALSE))
  /\ UNCHANGED <<write_faults, in_flight>>

SetTaskStatus ==
  /\ LogRoom
  /\ \E id \in TaskIds, status \in TaskStatuses, notes \in {NULL, Some(Waiting)} :
       tool("ha_task_status", ha_task_status(id, status, NULL, notes, FALSE, FALSE))
  /\ UNCHANGED <<write_faults, in_flight>>

Next ==
  \/ Tick
  \/ CreateProject
  \/ CreateTask
  \/ UpdateTask
  \/ AssignTask
  \/ SetTaskStatus

Spec == Init /\ [][Next]_vars

----------------------------------------------------------------------------
(* The same tools against a store that may fail any write: the entity     *)
(* write (dbErr) or the activity_log insert that follows it (logErr).      *)

FaultMaxProjects == 2
FaultMaxTasks == 1
FaultMaxLog == 3
MaxFaults == 1

FaultLogRoom == Len(activity_log) < FaultMaxLog

NewProjectStatuses == {NULL, Some("active")}
Notes == {NULL, Some(Waiting)}

\* the outcomes of a call's two writes: a call whose first write fails makes no second
WriteFaults == {<<FALSE, FALSE>>, <<TRUE, FALSE>>, <<FALSE, TRUE>>}

\* one more failed write, within the bound, when one of the call's writes fails
Faulted(f) ==
  /\ UNCHANGED in_flight
  /\ IF f[1] \/ f[2]
     THEN write_faults < MaxFaults /\ write_faults' = write_faults + 1
     ELSE UNCHANGED write_faults

FaultCreateProject ==
  /\ Len(projects) < FaultMaxProjects /\ FaultLogRoom
  /\ \E f \in WriteFaults :
       tool("ha_project_create", ha_project_create(Acme, f[1], f[2])) /\ Faulted(f)

FaultUpdateProject ==
  /\ FaultLogRoom
  /\ \E id \in ProjectIds, status \in NewProjectStatuses, f \in WriteFaults :
       tool("ha_project_update", ha_project_update(id, NULL, status, f[1], f[2])) /\ Faulted(f)

FaultCreateTask ==
  /\ Len(tasks) < FaultMaxTasks /\ FaultLogRoom
  /\ \E p \in DOMAIN projects, f \in WriteFaults :
       tool("ha_task_create", ha_task_create(p, Design, NULL, NULL, NULL, f[1], f[2])) /\ Faulted(f)

FaultAssignTask ==
  /\ FaultLogRoom
  /\ \E id \in TaskIds, f \in WriteFaults :
       tool("ha_task_assign", ha_task_assign(id, Dev, NULL, f[1], f[2])) /\ Faulted(f)

FaultSetTaskStatus ==
  /\ FaultLogRoom
  /\ \E id \in TaskIds, status \in TaskStatuses, notes \in Notes, f \in WriteFaults :
       tool("ha_task_status", ha_task_status(id, status, NULL, notes, f[1], f[2])) /\ Faulted(f)

Note == "note"

FaultLogActivity ==
  /\ FaultLogRoom
  /\ \E f \in {<<FALSE, FALSE>>, <<FALSE, TRUE>>} :
       tool("ha_activity_log", ha_activity_log(Ava, Note, NULL, NULL, f[2])) /\ Faulted(f)

FaultNext ==
  \/ FaultLogActivity
  \/ FaultCreateProject
  \/ FaultUpdateProject
  \/ FaultCreateTask
  \/ FaultAssignTask
  \/ FaultSetTaskStatus

SpecFault == Init /\ [][FaultNext]_vars

----------------------------------------------------------------------------
(* Listings and the dashboard over the stores the task tools build: the   *)
(* store fails no write and may fail any fetch.                            *)

ReadMaxProjects == 1
ReadMaxTasks == 2
ReadMaxLog == 3

Teams == {NULL, Some(Dev)}
Agents == {NULL, Some(Ava)}
ListStatuses == {NULL} \cup {Some(s) : s \in TaskStatuses}
ListLimits == {NULL, Some(1)}
IncludeDone == {NULL, Some(FALSE), Some(TRUE)}

ReadLogRoom == Len(activity_log) < ReadMaxLog

ReadCreateProject ==
  /\ Len(projects) < ReadMaxProjects /\ ReadLogRoom
  /\ tool("ha_project_create", ha_project_create(Acme, FALSE, FALSE))
  /\ UNCHANGED <<write_faults, in_flight>>

ReadCreateTask ==
  /\ Len(tasks) < ReadMaxTasks /\ ReadLogRoom
  /\ \E p \in DOMAIN projects, team \in Teams, agent \in Agents :
       tool("ha_task_create", ha_task_create(p, Design, team, agent, NULL, FALSE, FALSE))
  /\ UNCHANGED <<write_faults, in_flight>>

ReadSetTaskStatus ==
  /\ ReadLogRoom
  /\ \E id \in DOMAIN tasks, status \in TaskStatuses :
       tool("ha_task_status", ha_task_status(id, status, NULL, NULL, FALSE, FALSE))
  /\ UNCHANGED <<write_faults, in_flight>>

ListTasks ==
  /\ \E p \in {NULL} \cup {Some(i) : i \in DOMAIN projects}, status \in ListStatuses,
        team \in Teams, limit \in ListLimits, dbErr \in BOOLEAN :
       tool("ha_task_list", ha_task_list(p, status, team, NULL, NULL, limit, dbErr))
  /\ UNCHANGED <<write_faults, in_flight>>

MyTasks ==
  /\ \E include_done \in IncludeDone, dbErr \in BOOLEAN :
       tool("ha_task_my_tasks", ha_task_my_tasks(Ava, include_done, dbErr))
  /\ UNCHANGED <<write_faults, in_flight>>

TeamTasks ==
  /\ \E include_done \in IncludeDone, dbErr \in BOOLEAN :
       tool("ha_task_team_tasks", ha_task_team_tasks(Dev, include_done, dbErr))
  /\ UNCHANGED <<write_faults, in_flight>>

ProjectDashboard ==
  /\ \E p \in ProjectIds, projErr, tasksErr, actErr \in BOOLEAN :
       tool("ha_status_project", ha_status_project(p, projErr, tasksErr, actErr))
  /\ UNCHANGED <<write_faults, in_flight>>

LowerTeams == {NULL, Some(toLowerCase(Dev))}

GetActivity ==
  /\ \E team \in LowerTeams, agent \in Agents, dbErr \in BOOLEAN :
       tool("ha_activity_get", ha_activity_get(NULL, agent, team, NULL, NULL, dbErr))
  /\ UNCHANGED <<write_faults, in_flight>>

ReadNext ==
  \/ GetActivity
  \/ ReadCreateProject
  \/ ReadCreateTask
  \/ ReadSetTaskStatus
  \/ ListTasks
  \/ MyTasks
  \/ TeamTasks
  \/ ProjectDashboard

SpecRead == Init /\ [][ReadNext]_vars

----------------------------------------------------------------------------
(* The task tools on one clock reading, with the team and the agent of    *)
(* assignTask and the notes of setTaskStatus varied; the store fails no    *)
(* write.                                                                  *)

LifeMaxTasks == 1
LifeMaxLog == 3

Ops == <<"O","P","S">>
AssignTeams == {Dev, Ops}

LifeLogRoom == Len(activity_log) < LifeMaxLog

LifeCreateProject ==
  /\ Len(projects) < MaxProjects /\ LifeLogRoom
  /\ tool("ha_project_create", ha_project_create(Acme, FALSE, FALSE))
  /\ UNCHANGED <<write_faults, in_flight>>

LifeCreateTask ==
  /\ Len(tasks) < LifeMaxTasks /\ LifeLogRoom
  /\ \E p \in DOMAIN projects :
       tool("ha_task_create", ha_task_create(p, Design, NULL, Some(Ava), NULL, FALSE, FALSE))
  /\ UNCHANGED <<write_faults, in_flight>>

LifeUpdateTask ==
  /\ \E id \in TaskIds, status \in ListStatuses :
       tool("ha_task_update", ha_task_update(id, NULL, NULL, status, NULL, NULL, NULL, FALSE))
  /\ UNCHANGED <<write_faults, in_flight>>

LifeAssignTask ==
  /\ LifeLogRoom
  /\ \E id \in TaskIds, team \in AssignTeams, agent \in Agents :
       tool("ha_task_assign", ha_task_assign(id, team, agent, FALSE, FALSE))
  /\ UNCHANGED <<write_faults, in_flight>>

LifeSetTaskStatus ==
  /\ LifeLogRoom
  /\ \E id \in TaskIds, status \in TaskStatuses, notes \in Notes :
       tool("ha_task_status", ha_task_status(id, status, NULL, notes, FALSE, FALSE))
  /\ UNCHANGED <<write_faults, in_flight>>

LifeUpdateProject ==
  /\ LifeLogRoom
  /\ \E id \in ProjectIds :
       tool("ha_project_update", ha_project_update(id, NULL, Some("active"), FALSE, FALSE))
  /\ UNCHANGED <<write_faults, in_flight>>

LifeNext ==
  \/ LifeUpdateProject
  \/ LifeCreateProject
  \/ LifeCreateTask
  \/ LifeUpdateTask
  \/ LifeAssignTask
  \/ LifeSetTaskStatus

SpecLife == Init /\ [][LifeNext]_vars

----------------------------------------------------------------------------
(* Projects looked up by id and by slug.  Among the names is one that is   *)
(* itself of the UUID shape, and among the identifiers the ids and slugs   *)
(* of the projects, an id and a slug of no project, and near-UUIDs.        *)

GetMaxProjects == 2
GetMaxLog == 4

\* FFFFFFFF-FFFF-FFFF-FFFF-FFFFFFFFFFFF
UuidName == [k \in 1 .. 36 |-> IF k \in {9, 14, 19, 24} THEN "-" ELSE "F"]
GetNames == {Acme, UuidName}

Identifiers ==
  {ProjectUuid(p) : p \in ProjectIds}
    \cup {projects[p].slug : p \in DOMAIN projects}
    \cup {Acme, UuidName, generateSlug(Dev)}
    \cup {SubSeq(ProjectUuid(1), 1, 35), ProjectUuid(1) \o <<"0">>,
          [ProjectUuid(1) EXCEPT ![1] = "g"], [ProjectUuid(1) EXCEPT ![9] = "0"]}

GetLogRoom == Len(activity_log) < GetMaxLog

GetCreateProject ==
  /\ Len(projects) < GetMaxProjects /\ GetLogRoom
  /\ \E name \in GetNames :
       tool("ha_project_create", ha_project_create(name, FALSE, FALSE))
  /\ UNCHANGED <<write_faults, in_flight>>

GetRenameProject ==
  /\ GetLogRoom
  /\ \E id \in DOMAIN projects, name \in GetNames :
       tool("ha_project_update", ha_project_update(id, Some(name), NULL, FALSE, FALSE))
  /\ UNCHANGED <<write_faults, in_flight>>

GetProject ==
  /\ \E identifier \in Identifiers, dbErr \in BOOLEAN :
       tool("ha_project_get", ha_project_get(identifier, dbErr))
  /\ UNCHANGED <<write_faults, in_flight>>

GetNext ==
  \/ GetCreateProject
  \/ GetRenameProject
  \/ GetProject

SpecGet == Init /\ [][GetNext]_vars

----------------------------------------------------------------------------
(* Projects created with every name of bounded length over an alphabet    *)
(* that holds one character of each class generateSlug treats apart (an    *)
(* upper-case letter, a lower-case letter, a digit, a space, a hyphen, and *)
(* a character it strips), and then renamed.  The store fails no write.    *)

SlugMaxLen == 2
SlugMaxProjects == 1
SlugMaxLog == 2

Alphabet == {"A", "b", "1", " ", "-", "!"}

RECURSIVE Strings(_)
Strings(n) ==
  IF n = 0 THEN {<<>>}
  ELSE LET shorter == Strings(n - 1)
       IN shorter \cup {Append(x, c) : x \in shorter, c \in Alphabet}

SlugNames == Strings(SlugMaxLen)

\* the names a project is renamed to: the empty name, the one-character names,
\* and the slugs of the projects
NewNames == {<<>>} \cup {<<c>> : c \in Alphabet} \cup {projects[p].slug : p \in DOMAIN projects}

SlugLogRoom == Len(activity_log) < SlugMaxLog

SlugCreateProject ==
  /\ Len(projects) < SlugMaxProjects /\ SlugLogRoom
  /\ \E name \in SlugNames :
       tool("ha_project_create", ha_project_create(name, FALSE, FALSE))
  /\ UNCHANGED <<write_faults, in_flight>>

SlugRenameProject ==
  /\ SlugLogRoom
  /\ \E id \in ProjectIds, name \in NewNames :
       tool("ha_project_update", ha_project_update(id, Some(name), NULL, FALSE, FALSE))
  /\ UNCHANGED <<write_faults, in_flight>>

SlugNext ==
  \/ SlugCreateProject
  \/ SlugRenameProject

SpecSlug == Init /\ [][SlugNext]_vars

----------------------------------------------------------------------------
(* The listings and the dashboard of a process started in any environment: *)
(* the URL unset, malformed or well-formed, the service key unset, empty   *)
(* or present.                                                             *)

Envs == [SUPABASE_URL : {"unset", "not a url"} \cup ValidUrls,
         SUPABASE_SERVICE_KEY : {"unset", "", "key"}]

InitAnyEnv ==
  /\ EmptyStore
  /\ env \in Envs

SpecConfig == InitAnyEnv /\ [][ReadNext]_vars

----------------------------------------------------------------------------
(* setTaskStatus calls that run concurrently: a call's update of the task  *)
(* row and its activity_log insert are two steps, and the steps of the     *)
(* calls in flight interleave in any order.  The store fails no write and  *)
(* no other tool touches a task once it is created.                        *)

RaceMaxTasks == 1
RaceMaxLog == 4
MaxInFlight == 2

\* room in the log for the rows of this call and of the calls in flight
RaceLogRoom == Len(activity_log) + Len(in_flight) < RaceMaxLog

RaceCreateProject ==
  /\ Len(projects) < MaxProjects /\ RaceLogRoom
  /\ tool("ha_project_create", ha_project_create(Acme, FALSE, FALSE))
  /\ UNCHANGED <<write_faults, in_flight>>

RaceCreateTask ==
  /\ Len(tasks) < RaceMaxTasks /\ RaceLogRoom
  /\ \E p \in DOMAIN projects :
       tool("ha_task_create", ha_task_create(p, Design, NULL, NULL, NULL, FALSE, FALSE))
  /\ UNCHANGED <<write_faults, in_flight>>

RaceStatusUpdate ==
  /\ Len(in_flight) < MaxInFlight /\ RaceLogRoom
  /\ ~NoClient
  /\ \E id \in DOMAIN tasks, status \in TaskStatuses :
       tool("ha_task_status", ha_task_status_update(id, status, NULL, NULL))
  /\ UNCHANGED write_faults

RaceStatusLog ==
  /\ \E i \in DOMAIN in_flight : ha_task_status_log(i)
  /\ UNCHANGED write_faults

RaceNext ==
  \/ RaceCreateProject
  \/ RaceCreateTask
  \/ RaceStatusUpdate
  \/ RaceStatusLog

SpecRace == Init /\ [][RaceNext]_vars

----------------------------------------------------------------------------
(* The step a successful call of tool op takes.  Tick leaves result        *)
(* alone and is the only action that moves the clock, so a step that       *)
(* changes the state and not the clock is a tool call, and result' is      *)
(* what that call left for its caller.                                     *)

Called(op) == vars' # vars /\ clock' = clock /\ result'.op = op
Succeeded(op) == Called(op) /\ result'.ok

StatusTools == {"ha_task_status", "ha_task_update"}

\* a successful ha_task_status / ha_task_update call that moves task t into status s
MovesInto(t, s) ==
  /\ \E op \in StatusTools : Succeeded(op)
  /\ result'.id = t
  /\ tasks[t].status # s
  /\ tasks'[t].status = s

----------------------------------------------------------------------------
(* C1: once started_at is set, a later transition into in_progress, by    *)
(* setTaskStatus or by updateTask, leaves started_at unchanged.            *)

C1_StartedAtKept ==
  [][\A t \in DOMAIN tasks :
       (tasks[t].started_at # NULL /\ MovesInto(t, "in_progress"))
         => tasks'[t].started_at = tasks[t].started_at]_vars

(* C2: once completed_at is set, a later transition into done (such as    *)
(* done -> todo -> done) leaves completed_at unchanged.                    *)

C2_CompletedAtKept ==
  [][\A t \in DOMAIN tasks :
       (tasks[t].completed_at # NULL /\ MovesInto(t, "done"))
         => tasks'[t].completed_at = tasks[t].completed_at]_vars

(* C3: in every reachable state a task with a non-null blocker_reason has *)
(* status blocked.                                                         *)

C3_BlockerOnlyWhileBlocked ==
  \A t \in DOMAIN tasks :
    tasks[t].blocker_reason # NULL => tasks[t].status = "blocked"

(* C5: every successful updateTask call that changes a task row appends   *)
(* exactly one ActivityLog row.                                            *)

C5_UpdateTaskLogsOnce ==
  [][(Succeeded("ha_task_update") /\ tasks' # tasks)
       => Len(activity_log') = Len(activity_log) + 1]_vars

(* C10: an updateTask patch with a status leaves started_at, completed_at *)
(* and blocker_reason as setTaskStatus with that status and no notes      *)
(* would, from every task state and for every status, and emits no        *)
(* task_<status> activity row.                                             *)

SameSideEffects(row, s) ==
  LET u == Patched(row, TaskUpdateData(NULL, NULL, Some(s), NULL, NULL, NULL))
      v == Patched(row, TaskStatusData(s, NULL, NULL))
  IN /\ u.started_at = v.started_at
     /\ u.completed_at = v.completed_at
     /\ u.blocker_reason = v.blocker_reason

C10_UpdateAsSetStatus ==
  /\ [](\A t \in DOMAIN tasks : \A s \in TaskStatuses : SameSideEffects(tasks[t], s))
  /\ [][Succeeded("ha_task_update") => activity_log' = activity_log]_vars

----------------------------------------------------------------------------
(* C4: every successful createProject, createTask, updateProject,         *)
(* assignTask or setTaskStatus call appends exactly one ActivityLog row;   *)
(* the row carries the project id of the entity acted on and, for the      *)
(* task tools, the task id as related_id.                                  *)

ProjectTools == {"ha_project_create", "ha_project_update"}
TaskTools == {"ha_task_create", "ha_task_assign", "ha_task_status"}

LastRow(log) == log[Len(log)]

C4_OneRowPerCall ==
  [][\A op \in ProjectTools \cup TaskTools :
       Succeeded(op) =>
         /\ Len(activity_log') = Len(activity_log) + 1
         /\ SubSeq(activity_log', 1, Len(activity_log)) = activity_log
         /\ op \in ProjectTools =>
              LastRow(activity_log').project_id = Some(result'.id)
         /\ op \in TaskTools =>
              /\ LastRow(activity_log').project_id = Some(tasks'[result'.id].project_id)
              /\ LastRow(activity_log').related_id = Some(result'.id)]_vars

\* setTaskStatus has succeeded on a task of the second project, and the row it
\* appended to a non-empty log names that project and that task
C4_Witness ==
  /\ result.op = "ha_task_status" /\ result.ok
  /\ Len(activity_log) > 1
  /\ tasks[result.id].project_id = 2
  /\ LastRow(activity_log).action = "task_done"
  /\ LastRow(activity_log).project_id = Some(2)
  /\ LastRow(activity_log).related_id = Some(result.id)

(* C7: when the activity-log insert fails after the entity write of       *)
(* createProject, updateProject, createTask, assignTask or setTaskStatus   *)
(* has succeeded, the call fails, the entity write stays in place, no      *)
(* ActivityLog row is added and nothing is tried again.                    *)

\* the step of a call of tool op whose activity-log insert failed
LogFailedCall(op) == Called(op) /\ result'.error = "activity_log"

LogFailed == ~result'.ok /\ activity_log' = activity_log

C7_LogFailureKeepsWrite ==
  [][/\ LogFailedCall("ha_project_create") =>
          /\ LogFailed
          /\ ha_project_create(Acme, FALSE, TRUE) =>
               /\ Len(projects') = Len(projects) + 1
               /\ LastRow(projects').name = Acme
     /\ LogFailedCall("ha_project_update") =>
          /\ LogFailed
          /\ \A id \in DOMAIN projects : \A status \in ProjectStatuses :
               ha_project_update(id, NULL, Some(status), FALSE, TRUE) =>
                 /\ Len(projects') = Len(projects)
                 /\ projects'[id].status = status
     /\ LogFailedCall("ha_task_create") =>
          /\ LogFailed
          /\ \A p \in DOMAIN projects :
               ha_task_create(p, Design, NULL, NULL, NULL, FALSE, TRUE) =>
                 /\ Len(tasks') = Len(tasks) + 1
                 /\ LastRow(tasks').project_id = p
                 /\ LastRow(tasks').status = "backlog"
     /\ LogFailedCall("ha_task_assign") =>
          /\ LogFailed
          /\ \A id \in DOMAIN tasks :
               ha_task_assign(id, Dev, NULL, FALSE, TRUE) =>
                 /\ Len(tasks') = Len(tasks)
                 /\ tasks'[id].status = "todo"
                 /\ tasks'[id].assigned_team = Some(toLowerCase(Dev))
     /\ LogFailedCall("ha_task_status") =>
          /\ LogFailed
          /\ \A id \in DOMAIN tasks : \A status \in TaskStatuses : \A notes \in Notes :
               ha_task_status(id, status, NULL, notes, FALSE, TRUE) =>
                 /\ Len(tasks') = Len(tasks)
                 /\ tasks'[id].status = status]_vars

\* setTaskStatus(done) has failed on its activity-log insert: the task is done,
\* and the log holds no row of that call
C7_Witness ==
  /\ result.op = "ha_task_status" /\ ~result.ok /\ result.error = "activity_log"
  /\ \E t \in DOMAIN tasks : tasks[t].status = "done" /\ tasks[t].completed_at # NULL
  /\ \A i \in DOMAIN activity_log : activity_log[i].action # "task_done"

----------------------------------------------------------------------------
(* C6: listTasks, myTasks and teamTasks called with includeDone unset     *)
(* never return a task whose status is done, whatever the other filters.   *)

NoDone(rows) == \A i \in DOMAIN rows : tasks[rows[i]].status # "done"

\* a listing returned result.rows: no call has changed the store since
Returned(op) == result.op = op /\ result.ok

\* include_done unset: undefined, or false
Unset == {NULL, Some(FALSE)}

MyTeamTasksHideDone ==
  \A op \in {"ha_task_my_tasks", "ha_task_team_tasks"} :
    (Returned(op) /\ result.query.include_done \in Unset) => NoDone(result.rows)

C6_NoDoneListed ==
  /\ MyTeamTasksHideDone
  /\ Returned("ha_task_list") => NoDone(result.rows)

(* C6 as amended: myTasks and teamTasks called with includeDone unset     *)
(* never return a done task; listTasks, which takes no includeDone, never  *)
(* returns a done task when its status filter names another status.        *)

C6_NoDoneUnlessAsked ==
  /\ MyTeamTasksHideDone
  /\ (Returned("ha_task_list") /\ result.query.status \notin {NULL, Some("done")})
       => NoDone(result.rows)

\* myTasks, called with include_done unset for an agent who has a done task,
\* has returned without that task
C6_Witness ==
  /\ Returned("ha_task_my_tasks")
  /\ result.query.include_done = NULL
  /\ \E t \in DOMAIN tasks :
       /\ tasks[t].assigned_agent = Some(toLowerCase(Ava))
       /\ tasks[t].status = "done"
       /\ t \notin Range(result.rows)

(* C8: projectDashboard fails as a whole when the project fetch succeeds  *)
(* and the task fetch or the recent-activity fetch fails: it never         *)
(* returns a dashboard with the failed fetch's rows missing.               *)

HasTasks(project_id) == \E t \in DOMAIN tasks : tasks[t].project_id = project_id
HasActivity(project_id) ==
  \E i \in DOMAIN activity_log : activity_log[i].project_id = Some(project_id)

C8_DashboardAllOrNothing ==
  [][Called("ha_status_project") =>
       \A project_id \in DOMAIN projects : \A tasksErr, actErr \in BOOLEAN :
         ( /\ (tasksErr /\ HasTasks(project_id)) \/ (actErr /\ HasActivity(project_id))
           /\ ha_status_project(project_id, FALSE, tasksErr, actErr) )
           => ~result'.ok]_vars

(* C9: a successful projectDashboard(p) reports by_status[s] as the       *)
(* number of tasks of p with status s, by_team[t] as the number of tasks   *)
(* of p assigned to team t, and total as the number of all tasks of p.     *)

CountOf(counts, k) == IF k \in DOMAIN counts THEN counts[k] ELSE 0

TasksOf(project_id) == {t \in DOMAIN tasks : tasks[t].project_id = project_id}

C9_DashboardCounts ==
  (result.op = "ha_status_project" /\ result.ok) =>
    LET d == result.dash
        mine == TasksOf(d.project)
    IN /\ d.total = Cardinality(mine)
       /\ \A s \in TaskStatuses :
            CountOf(d.by_status, s) = Cardinality({t \in mine : tasks[t].status = s})
       /\ \A t \in mine :
            tasks[t].assigned_team # NULL =>
              CountOf(d.by_team, tasks[t].assigned_team[1])
                = Cardinality({u \in mine : tasks[u].assigned_team = tasks[t].assigned_team})

----------------------------------------------------------------------------
(* C11: a task's started_at is non-null exactly when its status has been  *)
(* in_progress at some point since its creation.  Step by step: a new     *)
(* task has a null started_at and is not in_progress, and a step leaves a  *)
(* task with a non-null started_at exactly when it had one before or is    *)
(* in_progress after the step; so assignTask and a transition to another   *)
(* status keep a null started_at null, and nothing resets it to null.      *)

C11_StartedIffWasInProgress ==
  [][/\ \A t \in DOMAIN tasks' \ DOMAIN tasks :
          tasks'[t].started_at = NULL /\ tasks'[t].status # "in_progress"
     /\ \A t \in DOMAIN tasks :
          tasks'[t].started_at # NULL
            <=> (tasks[t].started_at # NULL \/ tasks'[t].status = "in_progress")]_vars

\* assignTask has moved a task that was once in_progress to todo: started_at is
\* still set
C11_Witness ==
  /\ result.op = "ha_task_assign" /\ result.ok
  /\ tasks[result.id].status = "todo"
  /\ tasks[result.id].started_at # NULL

(* C12: the ActivityLog is append-only: no step modifies or removes a row,*)
(* so the log before every step is a prefix of the log after it (and, the  *)
(* prefix order being transitive, of the log of every later state).        *)

IsPrefix(s, t) == Len(s) <= Len(t) /\ SubSeq(t, 1, Len(s)) = s

C12_AppendOnly == [][IsPrefix(activity_log, activity_log')]_vars

\* logActivity has appended a third row behind the rows of createProject and
\* createTask, which are still in place
C12_Witness ==
  /\ result.op = "ha_activity_log" /\ result.ok
  /\ Len(activity_log) = 3
  /\ activity_log[1].action = "project_created"
  /\ activity_log[2].action = "task_created"
  /\ activity_log[3].action = Note

(* C13: team and agent identifiers are stored and compared in lowercase:  *)
(* every assigned_team and assigned_agent of a task and every team and     *)
(* agent of an ActivityLog row written by createTask, assignTask or        *)
(* setTaskStatus is lowercase, and getActivity returns the rows whose team *)
(* and agent equal its filters with the case ignored, as the task listings *)
(* do.                                                                     *)

IsLower(s) == toLowerCase(s) = s
IsLowerOpt(x) == x = NULL \/ IsLower(x[1])

TaskActions == {"task_created", "task_assigned"} \cup {"task_" \o st : st \in TaskStatuses}

StoredLowercase ==
  /\ \A t \in DOMAIN tasks :
       IsLowerOpt(tasks[t].assigned_team) /\ IsLowerOpt(tasks[t].assigned_agent)
  /\ \A i \in DOMAIN activity_log :
       activity_log[i].action \in TaskActions =>
         IsLowerOpt(activity_log[i].team) /\ IsLower(activity_log[i].agent)

\* row matches the filter x when x is unset or equals the row's value, case ignored
SameIgnoringCase(x, value) == Truthy(x) => LowerOpt(value) = LowerOpt(x)

C13_LowercaseEverywhere ==
  /\ []StoredLowercase
  /\ [][Succeeded("ha_activity_get") =>
          \A team \in LowerTeams, agent \in Agents :
            ha_activity_get(NULL, agent, team, NULL, NULL, FALSE) =>
              \A i \in DOMAIN activity_log :
                ( /\ SameIgnoringCase(team, activity_log[i].team)
                  /\ SameIgnoringCase(agent, Some(activity_log[i].agent)) )
                  => i \in Range(result'.rows)]_vars

----------------------------------------------------------------------------
(* C14: getProject looks a project up by id exactly when the identifier   *)
(* has the 8-4-4-4-12 hexadecimal shape, in either case, and by slug for   *)
(* every other string: when the store answers, an identifier that matches  *)
(* no project by its key gives a not-found failure, a project returned is  *)
(* one the key matches, and the one project the key matches is returned.   *)

\* the maximal hyphen-free groups of s, in order
RECURSIVE Groups(_, _)
Groups(s, group) ==
  IF s = <<>> THEN <<group>>
  ELSE IF Head(s) = "-" THEN <<group>> \o Groups(Tail(s), <<>>)
  ELSE Groups(Tail(s), Append(group, Head(s)))

HexDigits == {"0","1","2","3","4","5","6","7","8","9",
              "a","b","c","d","e","f","A","B","C","D","E","F"}

HasUuidShape(s) ==
  LET g == Groups(s, <<>>)
  IN /\ [k \in DOMAIN g |-> Len(g[k])] = <<8, 4, 4, 4, 12>>
     /\ \A k \in DOMAIN g : Range(g[k]) \subseteq HexDigits

KeyMatches(identifier) ==
  IF HasUuidShape(identifier)
  THEN {p \in DOMAIN projects : ProjectUuid(p) = identifier}
  ELSE {p \in DOMAIN projects : projects[p].slug = identifier}

C14_GetProjectByShape ==
  [][Called("ha_project_get") =>
       \A identifier \in Identifiers :
         ha_project_get(identifier, FALSE) =>
           /\ KeyMatches(identifier) = {} =>
                ~result'.ok /\ result'.error = "Project not found: " \o NoRows
           /\ result'.ok => result'.id \in KeyMatches(identifier)
           /\ Cardinality(KeyMatches(identifier)) = 1 => result'.ok]_vars

\* the second project has been fetched by its id, which no slug equals
C14_Witness ==
  /\ result.op = "ha_project_get" /\ result.ok /\ result.id = 2
  /\ \A p \in DOMAIN projects : projects[p].slug # ProjectUuid(2)

(* C15: a single-row lookup or update that matches no row (getProject,    *)
(* updateProject, updateTask, assignTask, setTaskStatus,                   *)
(* projectDashboard) gives a not-found outcome, a fault of the store gives *)
(* another, and a store fault is never reported as not-found.              *)

SingleRowTools == {"ha_project_get", "ha_project_update", "ha_task_update",
                   "ha_task_assign", "ha_task_status", "ha_status_project"}

\* the failure tells its caller that the project was not found
ReportsNotFound(r) ==
  r.error \in {"Project not found: " \o m : m \in {NoRows, StoreFault}}

\* the failure came from a fault of the store
FromStoreFault(r) ==
  \E prefix \in {"Project not found", "Failed to update project", "Failed to update task",
                  "Failed to assign task", "Failed to update status"} :
    r.error = prefix \o ": " \o StoreFault

C15_FaultNeverNotFound ==
  (result.op \in SingleRowTools /\ ~result.ok) =>
    ~(ReportsNotFound(result) /\ FromStoreFault(result))

----------------------------------------------------------------------------
(* C16: for every input string, toSlug returns a string that holds only   *)
(* characters of [a-z0-9-], has no leading hyphen, no trailing hyphen and  *)
(* no "--" in it.                                                          *)

SlugChars == Range(LowerChars) \cup DigitChars \cup {"-"}

WellFormedSlug(slug) ==
  /\ Range(slug) \subseteq SlugChars
  /\ slug # <<>> => Head(slug) # "-" /\ slug[Len(slug)] # "-"
  /\ \A k \in 1 .. Len(slug) - 1 : ~(slug[k] = "-" /\ slug[k + 1] = "-")

C16_SlugWellFormed == \A p \in DOMAIN projects : WellFormedSlug(projects[p].slug)

(* C17: toSlug is idempotent: the slug of every project, which is toSlug  *)
(* of a name, is its own slug.                                             *)

C17_SlugIdempotent ==
  \A p \in DOMAIN projects : generateSlug(projects[p].slug) = projects[p].slug

\* a project created as "A1" has been renamed to its own slug: the project named
\* "a1" (a name no createProject call of this specification uses) has slug "a1"
C17_Witness ==
  /\ result.op = "ha_project_update" /\ result.ok
  /\ projects[1].name = <<"a", "1">>
  /\ projects[1].slug = <<"a", "1">>

(* C18: every project's slug is toSlug of its current name, after any     *)
(* createProject and updateProject calls, and an updateProject that leaves *)
(* the name unchanged leaves the slug unchanged.                           *)

C18_SlugFollowsName ==
  /\ [](\A p \in DOMAIN projects : projects[p].slug = generateSlug(projects[p].name))
  /\ [][\A p \in DOMAIN projects :
          projects'[p].name = projects[p].name => projects'[p].slug = projects[p].slug]_vars

\* a project has been renamed to "A": its slug is now "a"
C18_Witness ==
  /\ result.op = "ha_project_update" /\ result.ok
  /\ Len(activity_log) = 2
  /\ activity_log[1].action = "project_created"
  /\ activity_log[2].action = "project_updated"
  /\ projects[1].name = <<"A">>
  /\ projects[1].slug = <<"a">>

----------------------------------------------------------------------------
(* C19: missing or invalid store credentials are a fatal error raised     *)
(* once at process start, before any operation is served: a process whose  *)
(* environment lacks a valid URL or a service key answers no operation     *)
(* call, so the error never is the failure of an individual call.          *)

C19_ConfigErrorAtStart ==
  /\ ~getEnv(env) => result = NoResult
  /\ result.error # MissingEnv

----------------------------------------------------------------------------
(* C20: a successful assignTask on an existing task, whatever its status, *)
(* leaves the task with status todo, assigned_team the lowercased team     *)
(* argument and assigned_agent the lowercased agent argument (null when no *)
(* agent is given), and appends one activity row with action              *)
(* task_assigned.                                                          *)

C20_AssignMakesTodo ==
  [][Succeeded("ha_task_assign") =>
       \A id \in DOMAIN tasks, team \in AssignTeams, agent \in Agents :
         ha_task_assign(id, team, agent, FALSE, FALSE) =>
           /\ tasks'[id].status = "todo"
           /\ tasks'[id].assigned_team = Some(toLowerCase(team))
           /\ tasks'[id].assigned_agent = LowerOpt(agent)
           /\ Len(activity_log') = Len(activity_log) + 1
           /\ LastRow(activity_log').action = "task_assigned"
           /\ LastRow(activity_log').related_id = Some(id)]_vars

\* a task that was done has been assigned to team OPS and agent Ava: it is todo,
\* with team "ops" and agent "ava"
C20_Witness ==
  /\ result.op = "ha_task_assign" /\ result.ok
  /\ tasks[result.id].completed_at # NULL
  /\ tasks[result.id].status = "todo"
  /\ tasks[result.id].assigned_team = Some(<<"o", "p", "s">>)
  /\ tasks[result.id].assigned_agent = Some(<<"a", "v", "a">>)
  /\ LastRow(activity_log).action = "task_assigned"

----------------------------------------------------------------------------
(* C21: updateTask, assignTask, setTaskStatus or updateProject called     *)
(* with an id that matches no row fails, changes no task or project row,   *)
(* and appends no ActivityLog row.                                         *)

\* an id of no task, and an id of no project
NoTask == Len(tasks) + 1
NoProject == Len(projects) + 1

FailedAndNothingWritten ==
  /\ ~result'.ok
  /\ tasks' = tasks
  /\ projects' = projects
  /\ activity_log' = activity_log

C21_MissingIdWritesNothing ==
  [][/\ Called("ha_task_update") =>
          \A status \in ListStatuses :
            ha_task_update(NoTask, NULL, NULL, status, NULL, NULL, NULL, FALSE)
              => FailedAndNothingWritten
     /\ Called("ha_task_assign") =>
          \A team \in AssignTeams, agent \in Agents :
            ha_task_assign(NoTask, team, agent, FALSE, FALSE) => FailedAndNothingWritten
     /\ Called("ha_task_status") =>
          \A status \in TaskStatuses, notes \in Notes :
            ha_task_status(NoTask, status, NULL, notes, FALSE, FALSE)
              => FailedAndNothingWritten
     /\ Called("ha_project_update") =>
          (ha_project_update(NoProject, NULL, Some("active"), FALSE, FALSE)
             => FailedAndNothingWritten)]_vars

\* setTaskStatus has failed on an id of no task while a project and a task
\* exist: the task is as createTask left it and the log holds the two rows of
\* the creations
C21_Witness ==
  /\ result.op = "ha_task_status" /\ ~result.ok
  /\ result.error = "Failed to update status: " \o NoRows
  /\ Len(tasks) = 1 /\ tasks[1].status = "backlog" /\ tasks[1].updated_by = NULL
  /\ Len(activity_log) = 2

----------------------------------------------------------------------------
(* C22: when several setTaskStatus calls on one task have run             *)
(* concurrently and all have completed, the status named by the newest     *)
(* task_<status> activity row of the task is the task's current status.    *)

StatusActions == {"task_" \o st : st \in TaskStatuses}

\* the positions in the log of the task_<status> rows of task t
StatusRows(t) ==
  {i \in DOMAIN activity_log :
     activity_log[i].related_id = Some(t) /\ activity_log[i].action \in StatusActions}

Newest(rows) == CHOOSE i \in rows : \A j \in rows : j <= i

C22_LastRowNamesStatus ==
  in_flight = <<>> =>
    \A t \in DOMAIN tasks :
      StatusRows(t) # {} =>
        activity_log[Newest(StatusRows(t))].action = "task_" \o tasks[t].status

----------------------------------------------------------------------------
(* C23: every project that exists is retrieved by getProject given its own *)
(* slug, also when the slug has the 8-4-4-4-12 hexadecimal shape.          *)

\* no other project has the slug of project p
OwnSlug(p) == \A q \in DOMAIN projects : projects[q].slug = projects[p].slug => q = p

C23_FoundByOwnSlug ==
  [][Called("ha_project_get") =>
       \A p \in DOMAIN projects :
         OwnSlug(p) /\ ha_project_get(projects[p].slug, FALSE) =>
           result'.ok /\ result'.id = p]_vars

----------------------------------------------------------------------------
(* C24: assignTask writes only assigned_team, assigned_agent, status and   *)
(* updated_by: project_id, started_at, completed_at, blocker_reason,       *)
(* priority and title stay as they were, and a call without an agent sets  *)
(* assigned_agent to null even if an agent was assigned before.            *)

AssignLeaves == {"project_id", "started_at", "completed_at", "blocker_reason", "priority", "title"}

====
